---- MODULE Spec2Model ----
(***************************************************************************)
(* imu_gnss_fusion_node: the ROS node that feeds inertial samples and GNSS *)
(* fixes to the error-state Kalman filter (KF), publishes the filtered     *)
(* pose and logs it.                                                       *)
(*                                                                         *)
(* Time is counted in ticks of half a second.     Covariances are in       *)
(* fixed point with CovScale units per unit of variance.  Vectors are      *)
(* 3-tuples, matrices are functions of 0-based row and column.  The        *)
(* orientation r_GI is a 3x3 rotation matrix (a tuple of rows); the model   *)
(* turns it by quarter turns about the up axis only.                       *)
(*                                                                         *)
(* kf.hpp and gnss.hpp are not part of the sources at hand: KF and the     *)
(* geodetic conversions are modelled from the design document.             *)
(***************************************************************************)
EXTENDS Integers, Sequences, FiniteSets, TLC

\* ------------------------------------------------------------------ bounds
MaxTime == 3          \* message timestamps range over 1..MaxTime
MaxCovSeed == 10      \* seeds of the covariances SpecLayout starts from
MaxCross == 3         \* largest yaw-position covariance SpecSeeded starts from

\* --------------------------------------------------------------- constants
kImuBufSize == 2      \* KF::kImuBufSize, scaled down
kStateDim == 15       \* dimension of the error state
SyncTol == 1          \* 0.5 s, in ticks
NumSpinThreads == 1   \* ros::spin() serves the callback queue on one thread
STATUS_GBAS_FIX == 2  \* the status gps_callback accepts
CovScale == 100       \* fixed-point unit of the covariances
Grav == 10            \* specific force of a platform at rest (abstract unit)

\* the callback queue served by two threads, as a multi-threaded spinner does
Threads_two == 1..(NumSpinThreads + 1)
Threads == 1..NumSpinThreads
Statuses == {0, 1, 2}             \* sensor_msgs/NavSatStatus: FIX, SBAS, GBAS
Times == 1..MaxTime
AccVals == {Grav, Grav + 1}       \* at rest, accelerating upwards
LLAs == {<<100, 200, 5>>, <<130, 260, 5>>}
\* init_lla_ before its first assignment: an indeterminate vector that no
\* fix carries
Unset == <<0, 0, 0>>
Null == [kind |-> "null"]         \* last_imu_ptr_ == nullptr
\* a spinner thread outside any callback remembers the callback it ran last:
\* the message it was called with and the point it returned at
Idle(m, r) == [kind |-> "idle", msg |-> m, ret |-> r]

Abs(x) == IF x < 0 THEN -x ELSE x
\* F(0) + ... + F(n - 1)
RECURSIVE SumTo(_, _)
SumTo(F(_), n) == IF n = 0 THEN 0 ELSE F(n - 1) + SumTo(F, n - 1)

\* the tuple <<F(0), ..., F(n - 1)>>: entry k of a vector is at position k + 1
RECURSIVE Tab(_, _)
Tab(F(_), n) == IF n = 0 THEN <<>> ELSE Append(Tab(F, n - 1), F(n - 1))

Idx == 0..(kStateDim - 1)
Zero3 == <<0, 0, 0>>
VAdd(a, b) == <<a[1] + b[1], a[2] + b[2], a[3] + b[3]>>
VSub(a, b) == <<a[1] - b[1], a[2] - b[2], a[3] - b[3]>>
VScale(a, k) == <<a[1] * k, a[2] * k, a[3] * k>>

\* ---------------------------------------------------------------- messages
\* sensor_msgs::Imu as imu_callback reads it
ImuMsgs == [kind : {"imu"}, timestamp : Times, acc : AccVals]

\* position_covariance of a fix: a 9-array, here 1 unit of variance per axis
PosCov == <<CovScale, 0, 0, 0, CovScale, 0, 0, 0, CovScale>>

\* sensor_msgs::NavSatFix as gps_callback reads it
GpsMsgs == [kind : {"gps"}, status : Statuses, timestamp : Times,
            lla : LLAs, position_covariance : {PosCov}]

VARIABLES
  initialized_,    \* KF::initialized_
  imu_buf_,        \* KF::imu_buf_, oldest sample first
  last_imu_ptr_,   \* KF::last_imu_ptr_
  state_ptr_,      \* KF::state_ptr_: the nominal state and its covariance
  init_lla_,       \* FusionNode::init_lla_, the reference anchor
  nav_path_,       \* FusionNode::nav_path_.poses
  odom_msg,        \* the last message published on nav_odom
  file_gps_,       \* lines of fusion_gps.csv
  file_state_,     \* lines of fusion_state.csv
  running,         \* per spinner thread: the callback it is in, or Idle
  imu_stamp,       \* the latest stamp delivered on /imu/data
  gps_stamp        \* the latest stamp delivered on /fix

vars == <<initialized_, imu_buf_, last_imu_ptr_, state_ptr_, init_lla_,
          nav_path_, odom_msg, file_gps_, file_state_, running,
          imu_stamp, gps_stamp>>

kfVars == <<initialized_, imu_buf_, last_imu_ptr_, state_ptr_>>
nodeVars == <<init_lla_, nav_path_, odom_msg, file_gps_, file_state_>>

\* --------------------------------------------------------------- rotations
\* the rotation by r quarter turns about the up axis: an exact subgroup of
\* SO(3)
RotMat(r) ==
  LET c == CASE r % 4 = 0 -> 1 [] r % 4 = 2 -> -1 [] OTHER -> 0
      s == CASE r % 4 = 1 -> 1 [] r % 4 = 3 -> -1 [] OTHER -> 0
  IN <<<<c, -s, 0>>, <<s, c, 0>>, <<0, 0, 1>>>>

\* the product of two 3x3 matrices
MatMul3(A, B) ==
  LET e(i, j) == A[i][1] * B[1][j] + A[i][2] * B[2][j] + A[i][3] * B[3][j]
  IN <<<<e(1, 1), e(1, 2), e(1, 3)>>,
       <<e(2, 1), e(2, 2), e(2, 3)>>,
       <<e(3, 1), e(3, 2), e(3, 3)>>>>

\* the rotation of a small-angle correction: the turn about the up axis
ExpMap(dtheta) == RotMat(dtheta[3])

\* r_GI * v
RotApply(r, v) ==
  <<r[1][1] * v[1] + r[1][2] * v[2] + r[1][3] * v[3],
    r[2][1] * v[1] + r[2][2] * v[2] + r[2][3] * v[3],
    r[3][1] * v[1] + r[3][2] * v[2] + r[3][3] * v[3]>>

\* Eigen::Quaterniond(r_GI) as (x, y, z, w), in 1/10000
Quat(r) ==
  CASE r[1][1] = 1 -> <<0, 0, 0, 10000>>
    [] r[2][1] = 1 -> <<0, 0, 7071, 7071>>
    [] r[1][1] = -1 -> <<0, 0, 10000, 0>>
    [] OTHER -> <<0, 0, 7071, -7071>>

\* ------------------------------------------------------------ KF (kf.hpp)
\* KF::set_cov with the arguments of the constructor: the variances of
\* position, velocity, roll/pitch, yaw and the two biases on the diagonal
\* (sigma_pv = 10, sigma_rp = 10 deg, sigma_yaw = 100 deg, 0.02, 0.02;
\* the variance of the biases is below the resolution of the fixed point)
set_cov ==
  [i \in Idx |-> [j \in Idx |->
     IF i # j THEN 0
     ELSE CASE i < 6 -> 100 * CovScale
            [] i \in {6, 7} -> 3
            [] i = 8 -> 305
            [] OTHER -> 0]]

\* the State a new KF holds
InitState == [timestamp |-> 0, p_GI |-> Zero3, v_GI |-> Zero3,
              r_GI |-> <<<<1, 0, 0>>, <<0, 1, 0>>, <<0, 0, 1>>>>,
              acc_bias |-> Zero3, gyr_bias |-> Zero3, cov |-> set_cov]

\* KF::init_rot_from_imudata: levels the orientation from the mean specific
\* force of the window; fails when the window is not that of a platform at
\* rest; marks the filter initialized when it succeeds
init_rot_from_imudata(r_GI, imu_buf) ==
  LET accs == {imu_buf[k].acc : k \in 1..Len(imu_buf)}
      mean_acc == SumTo(LAMBDA k : imu_buf[k + 1].acc, Len(imu_buf))
                    \div Len(imu_buf)
  IN IF Cardinality(accs) # 1
     THEN [ok |-> FALSE, r_GI |-> r_GI]
     ELSE [ok |-> TRUE, r_GI |-> RotMat(1 + (mean_acc - Grav))]

\* the buffer of KF::imu_callback: push_back, and pop_front beyond kImuBufSize
PushImu(imu_buf, imu_data) ==
  LET b == Append(imu_buf, imu_data)
  IN IF Len(b) > kImuBufSize THEN Tail(b) ELSE b

\* process noise added to the diagonal over dt (velocity, orientation, biases)
Qd(i, dt) == IF i < 3 THEN 0 ELSE dt

\* KF::predict: strapdown integration over dt and covariance propagation
predict(st, imu_data) ==
  LET dt == imu_data.timestamp - st.timestamp
      acc_G == <<0, 0, (imu_data.acc - st.acc_bias[3]) - Grav>>
  IN [st EXCEPT !.timestamp = imu_data.timestamp,
                !.p_GI = VAdd(st.p_GI, VScale(st.v_GI, dt)),
                !.v_GI = VAdd(st.v_GI, VScale(acc_G, dt)),
                !.cov = [i \in Idx |-> [j \in Idx |->
                           st.cov[i][j] + IF i = j THEN Qd(i, dt) ELSE 0]]]

\* ------------------------------------------------------ geodetic (gnss.hpp)
\* cg::lla2enu: east from the longitude, north from the latitude, up
lla2enu(init_lla, lla) ==
  <<lla[2] - init_lla[2], lla[1] - init_lla[1], lla[3] - init_lla[3]>>

\* cg::enu2lla: the inverse
enu2lla(init_lla, enu) ==
  <<init_lla[1] + enu[2], init_lla[2] + enu[1], init_lla[3] + enu[3]>>

\* cg::skew_matrix
skew_matrix(v) ==
  [i \in 0..2 |-> [j \in 0..2 |->
     CASE <<i, j>> = <<0, 1>> -> -v[3]
       [] <<i, j>> = <<0, 2>> -> v[2]
       [] <<i, j>> = <<1, 0>> -> v[3]
       [] <<i, j>> = <<1, 2>> -> -v[1]
       [] <<i, j>> = <<2, 0>> -> -v[2]
       [] <<i, j>> = <<2, 1>> -> v[1]
       [] OTHER -> 0]]

\* ------------------------------------------------------- the update (KF)
\* KF::update_K: K = P H^T (H P H^T + R)^-1, a row per error state; the
\* innovation covariance is diagonal for the covariances of this model
InnovationDiag(H, R, P) ==
  LET S(a) == SumTo(LAMBDA i :
                      IF H[a][i] = 0 THEN 0
                      ELSE SumTo(LAMBDA j : H[a][i] * P[i][j] * H[a][j],
                                 kStateDim),
                    kStateDim) + R[a][a]
  IN <<S(0), S(1), S(2)>>

update_K(H, R, P) ==
  LET S == InnovationDiag(H, R, P)
      PHt(i, a) == SumTo(LAMBDA j : P[i][j] * H[a][j], kStateDim)
  IN Tab(LAMBDA i : <<(PHt(i, 0) * CovScale) \div S[1],
                      (PHt(i, 1) * CovScale) \div S[2],
                      (PHt(i, 2) * CovScale) \div S[3]>>, kStateDim)

\* KF::update_P: P <- (I - K H) P
update_P(H, R, K, P) ==
  LET HP == Tab(LAMBDA a :
                  Tab(LAMBDA j : SumTo(LAMBDA k : H[a][k] * P[k][j],
                                       kStateDim), kStateDim), 3)
  IN [i \in Idx |-> [j \in Idx |->
        P[i][j] - ((K[i + 1][1] * HP[1][j + 1] + K[i + 1][2] * HP[2][j + 1]
                    + K[i + 1][3] * HP[3][j + 1]) \div CovScale)]]

\* K * residual: the 15 corrections of the error state
KTimes(K, residual) ==
  [i \in Idx |-> (K[i + 1][1] * residual[1] + K[i + 1][2] * residual[2]
                  + K[i + 1][3] * residual[3]) \div CovScale]

\* a correction that adds the orientation error to the entries of the
\* orientation instead of composing the two
StatePlus_additive(st, dx) ==
  [st EXCEPT !.p_GI = VAdd(st.p_GI, <<dx[0], dx[1], dx[2]>>),
             !.v_GI = VAdd(st.v_GI, <<dx[3], dx[4], dx[5]>>),
             !.r_GI = <<<<st.r_GI[1][1], st.r_GI[1][2] - dx[8], st.r_GI[1][3]>>,
                        <<st.r_GI[2][1] + dx[8], st.r_GI[2][2], st.r_GI[2][3]>>,
                        st.r_GI[3]>>,
             !.acc_bias = VAdd(st.acc_bias, <<dx[9], dx[10], dx[11]>>),
             !.gyr_bias = VAdd(st.gyr_bias, <<dx[12], dx[13], dx[14]>>)]

\* State::operator+: position, velocity and biases are added to; the
\* orientation is composed on the right with the rotation of the correction
StatePlus(st, dx) ==
  [st EXCEPT !.p_GI = VAdd(st.p_GI, <<dx[0], dx[1], dx[2]>>),
             !.v_GI = VAdd(st.v_GI, <<dx[3], dx[4], dx[5]>>),
             !.r_GI = MatMul3(st.r_GI, ExpMap(<<dx[6], dx[7], dx[8]>>)),
             !.acc_bias = VAdd(st.acc_bias, <<dx[9], dx[10], dx[11]>>),
             !.gyr_bias = VAdd(st.gyr_bias, <<dx[12], dx[13], dx[14]>>)]

\* ------------------------------------------------------------- FusionNode
\* the lever arm from the IMU to the GNSS antenna
I_p_Gps_ == Zero3

\* a gate that lets the SBAS fixes through as well
BadGpsMessage_lax(status) == status < 1

\* the quality gate of gps_callback
BadGpsMessage(status) == status # STATUS_GBAS_FIX

\* GpsData filled from the message; cov maps the 9-array column by column
GpsData(gps_msg) ==
  [timestamp |-> gps_msg.timestamp,
   lla |-> gps_msg.lla,
   cov |-> [i \in 0..2 |-> [j \in 0..2 |->
              gps_msg.position_covariance[3 * j + i + 1]]]]

\* the initializing branch never taken
NeedsInit_never(initialized) == FALSE

\* the initializing branch taken on every fix
NeedsInit_always(initialized) == TRUE

\* the branch that initializes the filter is taken while it is not initialized
NeedsInit(initialized) == ~initialized

\* a threshold one sample short
NotEnoughImu_short(imu_buf) == Len(imu_buf) < kImuBufSize - 1

\* a buffer of exactly kImuBufSize samples taken as too short
NotEnoughImu_strict(imu_buf) == Len(imu_buf) <= kImuBufSize

\* too few buffered samples to initialize
NotEnoughImu(imu_buf) == Len(imu_buf) < kImuBufSize

\* the oldest sample of the buffer in place of the latest
LatestSample_front(imu_buf) == imu_buf[1]

\* imu_buf_.back()
LatestSample(imu_buf) == imu_buf[Len(imu_buf)]

\* the comparison without the absolute value
NotSynchronized_signed(gps_timestamp, imu_timestamp) ==
  gps_timestamp - imu_timestamp > SyncTol

\* the fix and the latest buffered sample are more than 0.5 s apart
NotSynchronized(gps_timestamp, imu_timestamp) ==
  Abs(gps_timestamp - imu_timestamp) > SyncTol

\* residual = p_G_Gps - (p_GI + r_GI * I_p_Gps_)
Residual(p_G_Gps, p_GI, r_GI) ==
  VSub(p_G_Gps, VAdd(p_GI, RotApply(r_GI, I_p_Gps_)))

\* the measurement Jacobian: identity on the position error,
\* -r_GI * skew(I_p_Gps_) on the orientation error
Jacobian(r_GI) ==
  LET Rm == r_GI
      Sk == skew_matrix(I_p_Gps_)
  IN [a \in 0..2 |-> [k \in Idx |->
        CASE k < 3 -> IF k = a THEN 1 ELSE 0
          [] k \in 6..8 -> -(Rm[a + 1][1] * Sk[0][k - 6]
                             + Rm[a + 1][2] * Sk[1][k - 6]
                             + Rm[a + 1][3] * Sk[2][k - 6])
          [] OTHER -> 0]]

\* an update whose correction uses a gain recomputed from the updated
\* covariance
UpdateState_KAfterP(st, init_lla, gps_data) ==
  LET p_G_Gps == lla2enu(init_lla, gps_data.lla)
      residual == Residual(p_G_Gps, st.p_GI, st.r_GI)
      H == Jacobian(st.r_GI)
      R == gps_data.cov
      K == update_K(H, R, st.cov)
      P == update_P(H, R, K, st.cov)
  IN StatePlus([st EXCEPT !.cov = P], KTimes(update_K(H, R, P), residual))

\* an update that first moves the state to the timestamp of the fix
UpdateState_repropagate(st, init_lla, gps_data) ==
  LET p_G_Gps == lla2enu(init_lla, gps_data.lla)
      residual == Residual(p_G_Gps, st.p_GI, st.r_GI)
      H == Jacobian(st.r_GI)
      R == gps_data.cov
      K == update_K(H, R, st.cov)
      P == update_P(H, R, K, st.cov)
  IN StatePlus([st EXCEPT !.cov = P, !.timestamp = gps_data.timestamp],
               KTimes(K, residual))

\* the measurement update of gps_callback on the state st
UpdateState(st, init_lla, gps_data) ==
  LET p_G_Gps == lla2enu(init_lla, gps_data.lla)
      residual == Residual(p_G_Gps, st.p_GI, st.r_GI)
      H == Jacobian(st.r_GI)
      R == gps_data.cov
      K == update_K(H, R, st.cov)
      P == update_P(H, R, K, st.cov)
  IN StatePlus([st EXCEPT !.cov = P], KTimes(K, residual))

\* cov.block<3, 3>(r0, c0)
Block(cov, r0, c0) == [a \in 0..2 |-> [b \in 0..2 |-> cov[r0 + a][c0 + b]]]

\* the position-velocity block in place of the position-orientation block
P_po_velocity(cov) == Block(cov, 0, 3)

P_pp(cov) == Block(cov, 0, 0)
P_po(cov) == Block(cov, 0, 6)
P_op(cov) == Block(cov, 6, 0)
P_oo(cov) == Block(cov, 6, 6)

\* P_imu_pose << P_pp, P_po, P_op, P_oo
P_imu_pose(cov) ==
  [i \in 0..5 |-> [j \in 0..5 |->
     CASE i < 3 /\ j < 3 -> P_pp(cov)[i][j]
       [] i < 3 /\ j >= 3 -> P_po(cov)[i][j - 3]
       [] i >= 3 /\ j < 3 -> P_op(cov)[i - 3][j]
       [] OTHER -> P_oo(cov)[i - 3][j - 3]]]

\* pose.covariance[i] = P_imu_pose.data()[i], P_imu_pose being row-major
PoseCovariance(cov) ==
  [i \in 0..35 |-> P_imu_pose(cov)[i \div 6][i % 6]]

\* the odometry message of publish_save_state
OdomMsg(st) ==
  [frame_id |-> "global",
   position |-> st.p_GI,
   orientation |-> Quat(st.r_GI),
   twist |-> st.v_GI,
   covariance |-> PoseCovariance(st.cov)]

\* the stamped pose appended to the path
PoseStamped(odom) ==
  [frame_id |-> odom.frame_id,
   position |-> odom.position,
   orientation |-> odom.orientation]

\* a path that keeps the latest pose alone
PathAppend_reset(path, pose_stamped) == <<pose_stamped>>

\* nav_path_.poses.push_back(pose_stamped)
PathAppend(path, pose_stamped) == Append(path, pose_stamped)

\* the line written to fusion_state.csv
StateLine(st, init_lla) ==
  [timestamp |-> st.timestamp,
   p_GI |-> st.p_GI,
   q_GI |-> Quat(st.r_GI),
   lla |-> enu2lla(init_lla, st.p_GI)]

\* the line written to fusion_gps.csv
GpsLine(gps_data) == [timestamp |-> gps_data.timestamp, lla |-> gps_data.lla]

\* the state handed out as it was before the correction
publish_save_state_pre(st) ==
  /\ odom_msg' = OdomMsg(state_ptr_)
  /\ nav_path_' = PathAppend(nav_path_, PoseStamped(OdomMsg(state_ptr_)))
  /\ file_state_' = Append(file_state_, StateLine(state_ptr_, init_lla_))

\* FusionNode::publish_save_state on the state st
publish_save_state(st) ==
  /\ odom_msg' = OdomMsg(st)
  /\ nav_path_' = PathAppend(nav_path_, PoseStamped(OdomMsg(st)))
  /\ file_state_' = Append(file_state_, StateLine(st, init_lla_))

\* FusionNode::gps_callback, run to completion by spinner thread t
gps_callback(t) ==
  \E gps_msg \in GpsMsgs :
  LET gps_data == GpsData(gps_msg)
      Return(r) == running' = [running EXCEPT ![t] = Idle(gps_msg, r)]
  IN
  /\ running[t] = [kind |-> "gps"]
  /\ gps_msg.timestamp > gps_stamp
  /\ gps_stamp' = gps_msg.timestamp
  /\ UNCHANGED imu_stamp
  /\ IF BadGpsMessage(gps_msg.status)
     THEN /\ Return("gps:bad_message")
          /\ UNCHANGED <<kfVars, nodeVars>>
     ELSE IF NeedsInit(initialized_)
     THEN IF NotEnoughImu(imu_buf_)
          THEN /\ Return("gps:not_enough_imu")
               /\ UNCHANGED <<kfVars, nodeVars>>
          ELSE LET back == LatestSample(imu_buf_)
               IN /\ last_imu_ptr_' = back
                  /\ IF NotSynchronized(gps_data.timestamp, back.timestamp)
                     THEN /\ Return("gps:not_synchronized")
                          /\ UNCHANGED <<initialized_, imu_buf_, state_ptr_,
                                         nodeVars>>
                     ELSE LET lev == init_rot_from_imudata(state_ptr_.r_GI,
                                                           imu_buf_)
                          IN /\ state_ptr_' =
                                  [state_ptr_ EXCEPT
                                     !.timestamp = back.timestamp,
                                     !.r_GI = lev.r_GI]
                             /\ initialized_' = (initialized_ \/ lev.ok)
                             /\ init_lla_' = IF lev.ok THEN gps_data.lla
                                             ELSE init_lla_
                             /\ Return(IF lev.ok THEN "gps:initialized"
                                       ELSE "gps:leveling_failed")
                             /\ UNCHANGED <<imu_buf_, nav_path_, odom_msg,
                                            file_gps_, file_state_>>
     ELSE /\ state_ptr_' = UpdateState(state_ptr_, init_lla_, gps_data)
          /\ publish_save_state(state_ptr_')
          /\ file_gps_' = Append(file_gps_, GpsLine(gps_data))
          /\ Return("gps:updated")
          /\ UNCHANGED <<initialized_, imu_buf_, last_imu_ptr_, init_lla_>>

\* KF::imu_callback, run to completion by spinner thread t: buffers the
\* sample before initialization, propagates the state after it, and ignores
\* a sample that is not later than the state
imu_callback(t) ==
  \E imu_msg \in ImuMsgs :
  LET imu_data == [timestamp |-> imu_msg.timestamp, acc |-> imu_msg.acc]
      Return(r) == running' = [running EXCEPT ![t] = Idle(Null, r)]
  IN
  /\ running[t] = [kind |-> "imu"]
  /\ imu_msg.timestamp >= imu_stamp
  /\ imu_stamp' = imu_msg.timestamp
  /\ UNCHANGED gps_stamp
  /\ UNCHANGED nodeVars
  /\ IF ~initialized_
     THEN /\ imu_buf_' = PushImu(imu_buf_, imu_data)
          /\ Return("imu:buffered")
          /\ UNCHANGED <<initialized_, last_imu_ptr_, state_ptr_>>
     ELSE IF imu_data.timestamp <= state_ptr_.timestamp
     THEN /\ Return("imu:ignored")
          /\ UNCHANGED kfVars
     ELSE /\ state_ptr_' = predict(state_ptr_, imu_data)
          /\ last_imu_ptr_' = imu_data
          /\ Return("imu:predicted")
          /\ UNCHANGED <<initialized_, imu_buf_>>

\* ros::spin(): an idle spinner thread takes the next callback off the
\* callback queue, that of either subscription.  Each topic delivers its
\* messages in the order of their stamps: those of the samples never
\* decrease, those of the fixes increase
Spin(t) ==
  /\ running[t].kind = "idle"
  /\ \E topic \in {"imu", "gps"} :
       /\ topic = "gps" => gps_stamp < MaxTime
       /\ running' = [running EXCEPT ![t] = [kind |-> topic]]
  /\ UNCHANGED <<kfVars, nodeVars, imu_stamp, gps_stamp>>

\* the node after its constructor
Init ==
  /\ initialized_ = FALSE
  /\ imu_buf_ = <<>>
  /\ last_imu_ptr_ = Null
  /\ state_ptr_ = InitState
  /\ init_lla_ = Unset
  /\ nav_path_ = <<>>
  /\ odom_msg = [kind |-> "none"]
  /\ file_gps_ = <<>>
  /\ file_state_ = <<>>
  /\ running = [t \in Threads |-> Idle(Null, "none")]
  /\ imu_stamp = 0
  /\ gps_stamp = 0

Next == \E t \in Threads : Spin(t) \/ imu_callback(t) \/ gps_callback(t)

Spec == Init /\ [][Next]_vars

\* ------------------------------------------------- the published covariance
\* a symmetric covariance with a different value at every pair of indices
SeedCov(a, b) ==
  [i \in Idx |-> [j \in Idx |->
     a * (kStateDim * (IF i < j THEN i ELSE j) + (IF i < j THEN j ELSE i)) + b]]

\* an initialized filter with any of the seeded covariances, nothing published
InitLayout ==
  /\ initialized_ = TRUE
  /\ imu_buf_ = <<>>
  /\ last_imu_ptr_ = Null
  /\ \E a \in 1..MaxCovSeed, b \in 0..MaxCovSeed :
       state_ptr_ = [InitState EXCEPT !.cov = SeedCov(a, b)]
  /\ init_lla_ \in LLAs
  /\ nav_path_ = <<>>
  /\ odom_msg = [kind |-> "none"]
  /\ file_gps_ = <<>>
  /\ file_state_ = <<>>
  /\ running = [t \in Threads |-> Idle(Null, "none")]
  /\ imu_stamp = 0
  /\ gps_stamp = 0

\* publish_save_state alone, once
PublishPose ==
  /\ nav_path_ = <<>>
  /\ publish_save_state(state_ptr_)
  /\ UNCHANGED <<kfVars, init_lla_, file_gps_, running, imu_stamp, gps_stamp>>

SpecLayout == InitLayout /\ [][PublishPose]_vars

\* ------------------------------------------------ the correlated covariance
\* the covariance after set_cov with the yaw error correlated with the east
\* and north position errors, as propagation under acceleration leaves it
CrossCov(a) ==
  [i \in Idx |-> [j \in Idx |->
     IF {i, j} \in {{0, 8}, {1, 8}} THEN a * CovScale ELSE set_cov[i][j]]]

\* the filter as an initialization at rest leaves it, with any of the
\* correlated covariances
InitSeeded ==
  LET sample == [timestamp |-> 1, acc |-> Grav]
      buf == <<sample, sample>>
  IN /\ initialized_ = TRUE
     /\ imu_buf_ = buf
     /\ last_imu_ptr_ = sample
     /\ \E a \in (MaxCross - 1)..MaxCross :
          state_ptr_ = [InitState EXCEPT
                          !.timestamp = 1,
                          !.r_GI = init_rot_from_imudata(InitState.r_GI,
                                                         buf).r_GI,
                          !.cov = CrossCov(a)]
     /\ init_lla_ \in LLAs
     /\ nav_path_ = <<>>
     /\ odom_msg = [kind |-> "none"]
     /\ file_gps_ = <<>>
     /\ file_state_ = <<>>
     /\ running = [t \in Threads |-> Idle(Null, "none")]
     /\ imu_stamp = 1
     /\ gps_stamp = 1

SpecSeeded == InitSeeded /\ [][Next]_vars

\* ================================================================ properties
\* thread t returns from gps_callback in this step
GpsReturns(t) == running[t] = [kind |-> "gps"] /\ running'[t].kind = "idle"

\* the fix that call was made with
Fix(t) == running'[t].msg

\* thread t is idle and its last callback returned at r
ReturnedAt(t, r) == running[t].kind = "idle" /\ running[t].ret = r

\* the fix passes the quality gate and finds a buffer whose latest sample is
\* more than 0.5 s from it, in a filter that is not initialized
DesyncedFix(t) ==
  /\ GpsReturns(t)
  /\ ~initialized_
  /\ Fix(t).status = 2
  /\ Len(imu_buf_) > 0
  /\ Abs(Fix(t).timestamp - imu_buf_[Len(imu_buf_)].timestamp) > SyncTol

\* the fix reaches the leveling of a filter that is not initialized
LevelingFix(t) ==
  /\ GpsReturns(t)
  /\ ~initialized_
  /\ Fix(t).status = 2
  /\ Len(imu_buf_) >= kImuBufSize
  /\ Abs(Fix(t).timestamp - imu_buf_[Len(imu_buf_)].timestamp) <= SyncTol

\* C1: a gps_callback with a fix whose status is not 2 leaves the nominal
\* state, the covariance, the initialized flag, the anchor, the path and both
\* logs as they were; so only a fix of status 2 changes any of them.
C1_BadFixDiscarded ==
  [][\A t \in Threads :
       (GpsReturns(t) /\ Fix(t).status # 2)
       => UNCHANGED <<state_ptr_, initialized_, init_lla_, nav_path_,
                      file_gps_, file_state_>>]_vars

\* a fix of bad quality was rejected by a filter that had already published
C1_Witness ==
  \E t \in Threads :
    /\ ReturnedAt(t, "gps:bad_message")
    /\ running[t].msg.status # 2
    /\ Len(nav_path_) > 0

\* C2 as claimed: a desynchronized fix before initialization changes none of
\* the last-sample reference, the state, the initialized flag and the anchor.
C2_DesyncChangesNothing ==
  [][\A t \in Threads :
       DesyncedFix(t)
       => UNCHANGED <<last_imu_ptr_, state_ptr_, initialized_, init_lla_>>]_vars

\* C2 amended: a desynchronized fix before initialization leaves the state
\* (its timestamp and orientation included), the initialized flag and the
\* anchor as they were; the last-sample reference is overwritten with the
\* latest buffered sample when the buffer holds kImuBufSize samples.
C2_DesyncKeepsState ==
  [][\A t \in Threads :
       DesyncedFix(t)
       => /\ UNCHANGED <<state_ptr_, initialized_, init_lla_, imu_buf_,
                         nav_path_, file_gps_, file_state_>>
          /\ last_imu_ptr_' = IF Len(imu_buf_) >= kImuBufSize
                              THEN imu_buf_[Len(imu_buf_)]
                              ELSE last_imu_ptr_]_vars

\* a desynchronized fix was rejected and left its trace in last_imu_ptr_
C2_Witness ==
  \E t \in Threads :
    /\ ReturnedAt(t, "gps:not_synchronized")
    /\ ~initialized_
    /\ state_ptr_ = InitState
    /\ init_lla_ = Unset
    /\ last_imu_ptr_ = imu_buf_[Len(imu_buf_)]
    /\ Abs(running[t].msg.timestamp - last_imu_ptr_.timestamp) > SyncTol

\* C3 as claimed: when the leveling fails the filter stays uninitialized, the
\* anchor stays unset and the nominal state, its timestamp included, is as
\* it was before the call.
C3_LevelingFailureChangesNothing ==
  [][\A t \in Threads :
       (LevelingFix(t)
        /\ ~init_rot_from_imudata(state_ptr_.r_GI, imu_buf_).ok)
       => /\ ~initialized_'
          /\ init_lla_' = Unset
          /\ state_ptr_' = state_ptr_]_vars

\* C4: the filter becomes initialized only in a gps_callback whose fix has
\* status 2, with at least kImuBufSize buffered samples, the fix within 0.5 s
\* of the latest of them and a leveling that succeeds; a gps_callback that
\* finds fewer samples changes neither the state nor the anchor.
C4_NoInitFromUnderfilledBuffer ==
  [][/\ (~initialized_ /\ initialized_')
        => \E t \in Threads :
             /\ LevelingFix(t)
             /\ init_rot_from_imudata(state_ptr_.r_GI, imu_buf_).ok
     /\ \A t \in Threads :
          (GpsReturns(t) /\ Len(imu_buf_) < kImuBufSize)
          => UNCHANGED <<state_ptr_, init_lla_, initialized_>>]_vars

\* the filter has just been initialized, from a full buffer
C4_Witness ==
  \E t \in Threads :
    /\ ReturnedAt(t, "gps:initialized")
    /\ initialized_
    /\ Len(imu_buf_) >= kImuBufSize

\* C5: the anchor is assigned in one gps_callback, the one that initializes
\* the filter; once the filter is initialized it stays so, the anchor keeps
\* its value, every fix of status 2 is applied as an update, and the geodetic
\* position logged with the update is converted with that anchor.
C5_AnchorSetOnce ==
  [][/\ initialized_ <=> init_lla_ # Unset
     /\ init_lla_' # init_lla_
        => /\ ~initialized_ /\ initialized_'
           /\ \E t \in Threads : GpsReturns(t) /\ init_lla_' = Fix(t).lla
     /\ initialized_ => (initialized_' /\ init_lla_' = init_lla_)
     /\ \A t \in Threads :
          (GpsReturns(t) /\ initialized_ /\ Fix(t).status = 2)
          => /\ Len(file_state_') = Len(file_state_) + 1
             /\ file_state_'[Len(file_state_')].lla =
                  <<init_lla_[1] + state_ptr_'.p_GI[2],
                    init_lla_[2] + state_ptr_'.p_GI[1],
                    init_lla_[3] + state_ptr_'.p_GI[3]>>]_vars

\* two updates were applied after the initialization, the first of them with
\* a fix away from the anchor
C5_Witness ==
  /\ initialized_
  /\ Len(file_gps_) = 2
  /\ file_gps_[1].lla # init_lla_
  /\ file_state_[2].lla # init_lla_

\* C6: at most one callback is executing at any time.
C6_CallbacksSerialized ==
  Cardinality({t \in Threads : running[t].kind # "idle"}) <= 1

\* a fix callback is executing on a state that a propagation has written
C6_Witness ==
  /\ initialized_
  /\ state_ptr_.timestamp > imu_buf_[Len(imu_buf_)].timestamp
  /\ \E t \in Threads : running[t].kind = "gps"

\* C7 as claimed: every fix of status 2 that the filter uses, the one that
\* initializes it included, appends its line to the raw-fix log.
C7_EveryAcceptedFixLogged ==
  [][\A t \in Threads :
       (GpsReturns(t) /\ Fix(t).status = 2 /\ initialized_')
       => file_gps_' = Append(file_gps_, [timestamp |-> Fix(t).timestamp,
                                          lla |-> Fix(t).lla])]_vars

\* C8: an update appends the pose it publishes to the path, and no other step
\* changes the path; so the path holds the poses of the updates, in order.
C8_PathAppendOnly ==
  [][\A t \in Threads :
       IF GpsReturns(t) /\ initialized_ /\ Fix(t).status = 2
       THEN /\ nav_path_' = Append(nav_path_,
                                   [frame_id |-> "global",
                                    position |-> odom_msg'.position,
                                    orientation |-> odom_msg'.orientation])
            /\ odom_msg'.position = state_ptr_'.p_GI
       ELSE nav_path_' = nav_path_]_vars

\* the path holds the different poses of two updates
C8_Witness ==
  /\ Len(nav_path_) = 2
  /\ nav_path_[1] # nav_path_[2]
  /\ nav_path_[2].position = odom_msg.position

\* C9: the call that initializes the filter sets the state timestamp to that
\* of the latest buffered sample and the anchor to the coordinate of its fix.
C9_InitTimestampAndAnchor ==
  [][\A t \in Threads :
       (GpsReturns(t) /\ ~initialized_ /\ initialized_')
       => /\ state_ptr_'.timestamp = imu_buf_[Len(imu_buf_)].timestamp
          /\ init_lla_' = Fix(t).lla]_vars

\* the filter has just been initialized from samples and a fix whose
\* timestamps all differ
C9_Witness ==
  \E t \in Threads :
    /\ ReturnedAt(t, "gps:initialized")
    /\ state_ptr_.timestamp = imu_buf_[Len(imu_buf_)].timestamp
    /\ imu_buf_[1].timestamp # state_ptr_.timestamp
    /\ running[t].msg.timestamp # state_ptr_.timestamp
    /\ init_lla_ = running[t].msg.lla

\* the index of the error state behind index i of the pose covariance
PoseIdx(i) == IF i < 3 THEN i ELSE i + 3

\* C10: element 6*i+j of the published covariance is the entry of the error
\* covariance at (m(i), m(j)), m taking 0,1,2 to 0,1,2 and 3,4,5 to 6,7,8.
C10_PoseCovarianceLayout ==
  Len(nav_path_) > 0
  => \A i \in 0..5, j \in 0..5 :
       odom_msg.covariance[6 * i + j] = state_ptr_.cov[PoseIdx(i)][PoseIdx(j)]

\* a covariance whose cross blocks are not zero has been published
C10_Witness ==
  /\ Len(nav_path_) = 1
  /\ odom_msg.covariance[4] = state_ptr_.cov[0][7]
  /\ state_ptr_.cov[0][7] # state_ptr_.cov[0][4]
  /\ state_ptr_.cov[0][7] # 0

\* a fix of status 2 that the current buffer would initialize the filter with
EligibleFix(m) ==
  /\ m.status = STATUS_GBAS_FIX
  /\ Len(imu_buf_) >= kImuBufSize
  /\ Abs(m.timestamp - imu_buf_[Len(imu_buf_)].timestamp) <= SyncTol
  /\ init_rot_from_imudata(state_ptr_.r_GI, imu_buf_).ok

\* C13: a failed initialization is not fatal and is retried: whatever calls
\* were rejected before, a gps_callback of an uninitialized filter whose fix
\* has status 2, with kImuBufSize buffered samples, within 0.5 s of the latest
\* of them and a leveling that succeeds, initializes the filter in that call;
\* and a rejected call leaves the buffered samples for the next attempt.
C13_InitializationRetried ==
  [][\A t \in Threads :
       /\ (GpsReturns(t) /\ ~initialized_ /\ EligibleFix(Fix(t)))
          => /\ initialized_'
             /\ running'[t].ret = "gps:initialized"
       /\ (GpsReturns(t) /\ ~initialized_')
          => /\ imu_buf_' = imu_buf_
             /\ running'[t].ret \in {"gps:bad_message", "gps:not_enough_imu",
                                     "gps:not_synchronized",
                                     "gps:leveling_failed"}]_vars

\* a fix was rejected for its timestamp, the filter is not initialized, and a
\* later fix that would initialize it can still arrive
C13_Witness ==
  \E t \in Threads :
    /\ ReturnedAt(t, "gps:not_synchronized")
    /\ ~initialized_
    /\ \E m \in GpsMsgs : m.timestamp > gps_stamp /\ EligibleFix(m)

\* C14: once the filter is initialized every fix of status 2 is applied as
\* an update, however far its timestamp is from that of the state: the call
\* returns after the update and its logging, never at a rejection, and the
\* update leaves the state timestamp, the last-sample reference and the
\* buffer as they were (the state is not propagated to the fix timestamp).
C14_NoRejectionAfterInit ==
  [][\A t \in Threads :
       (GpsReturns(t) /\ initialized_ /\ Fix(t).status = STATUS_GBAS_FIX)
       => /\ running'[t].ret = "gps:updated"
          /\ file_gps_' = Append(file_gps_, GpsLine(GpsData(Fix(t))))
          /\ Len(file_state_') = Len(file_state_) + 1
          /\ state_ptr_'.timestamp = state_ptr_.timestamp
          /\ UNCHANGED <<initialized_, last_imu_ptr_, imu_buf_>>]_vars

\* an update was applied with a fix more than 0.5 s from the state
C14_Witness ==
  \E t \in Threads :
    /\ ReturnedAt(t, "gps:updated")
    /\ Abs(running[t].msg.timestamp - state_ptr_.timestamp) > SyncTol
    /\ file_gps_[Len(file_gps_)].timestamp = running[t].msg.timestamp

\* C15: within one update the residual and the Jacobian are computed from
\* the position and the orientation as they are before the correction, the
\* gain from the covariance as it is before the update, the covariance is
\* updated with that gain, and the state is corrected by that gain times that
\* residual.
C15_UpdateOrder ==
  [][\A t \in Threads :
       (GpsReturns(t) /\ initialized_ /\ Fix(t).status = STATUS_GBAS_FIX)
       => LET p_G_Gps == lla2enu(init_lla_, Fix(t).lla)
              residual == VSub(p_G_Gps,
                               VAdd(state_ptr_.p_GI,
                                    RotApply(state_ptr_.r_GI, I_p_Gps_)))
              H == Jacobian(state_ptr_.r_GI)
              R == GpsData(Fix(t)).cov
          IN \E K \in {update_K(H, R, state_ptr_.cov)} :
             \E dx \in {KTimes(K, residual)} :
               /\ state_ptr_'.cov = update_P(H, R, K, state_ptr_.cov)
               /\ state_ptr_'.p_GI =
                    VAdd(state_ptr_.p_GI, <<dx[0], dx[1], dx[2]>>)
               /\ state_ptr_'.v_GI =
                    VAdd(state_ptr_.v_GI, <<dx[3], dx[4], dx[5]>>)
               /\ state_ptr_'.r_GI =
                    MatMul3(state_ptr_.r_GI,
                            ExpMap(<<dx[6], dx[7], dx[8]>>))]_vars

\* an update has moved the position and shrunk the covariance of a state
\* that had been corrected before
C15_Witness ==
  \E t \in Threads :
    /\ ReturnedAt(t, "gps:updated")
    /\ Len(file_state_) = 2
    /\ file_state_[1].p_GI # state_ptr_.p_GI
    /\ state_ptr_.p_GI # Zero3
    /\ state_ptr_.cov[0][0] < set_cov[0][0]

\* the transpose of a 3x3 matrix
Transpose3(A) ==
  <<<<A[1][1], A[2][1], A[3][1]>>,
    <<A[1][2], A[2][2], A[3][2]>>,
    <<A[1][3], A[2][3], A[3][3]>>>>

\* the determinant of a 3x3 matrix
Det3(A) ==
  A[1][1] * (A[2][2] * A[3][3] - A[2][3] * A[3][2])
  - A[1][2] * (A[2][1] * A[3][3] - A[2][3] * A[3][1])
  + A[1][3] * (A[2][1] * A[3][2] - A[2][2] * A[3][1])

\* A is a rotation: its rows and its columns are orthonormal and its
\* determinant is 1
IsRotation(A) ==
  /\ MatMul3(A, Transpose3(A)) = RotMat(0)
  /\ MatMul3(Transpose3(A), A) = RotMat(0)
  /\ Det3(A) = 1

C16_OneResultPerUpdate ==
  [][/\ \A t \in Threads :
          IF GpsReturns(t) /\ initialized_ /\ Fix(t).status = STATUS_GBAS_FIX
          THEN /\ odom_msg'.position = state_ptr_'.p_GI
               /\ odom_msg'.orientation = Quat(state_ptr_'.r_GI)
               /\ odom_msg'.twist = state_ptr_'.v_GI
               /\ Len(nav_path_') = Len(nav_path_) + 1
               /\ SubSeq(nav_path_', 1, Len(nav_path_)) = nav_path_
               /\ nav_path_'[Len(nav_path_')].position = state_ptr_'.p_GI
               /\ nav_path_'[Len(nav_path_')].orientation =
                    Quat(state_ptr_'.r_GI)
               /\ Len(file_state_') = Len(file_state_) + 1
               /\ SubSeq(file_state_', 1, Len(file_state_)) = file_state_
               /\ file_state_'[Len(file_state_')].timestamp =
                    state_ptr_'.timestamp
               /\ file_state_'[Len(file_state_')].p_GI = state_ptr_'.p_GI
               /\ file_state_'[Len(file_state_')].q_GI =
                    Quat(state_ptr_'.r_GI)
               /\ file_gps_' = Append(file_gps_,
                                      [timestamp |-> Fix(t).timestamp,
                                       lla |-> Fix(t).lla])
          ELSE UNCHANGED <<odom_msg, nav_path_, file_state_, file_gps_>>
     /\ Len(nav_path_') = Len(file_state_')
     /\ Len(file_state_') = Len(file_gps_')]_vars

\* two updates have been handed out, the second after a correction that
\* moved the position
C16_Witness ==
  \E t \in Threads :
    /\ ReturnedAt(t, "gps:updated")
    /\ Len(nav_path_) = 2 /\ Len(file_state_) = 2 /\ Len(file_gps_) = 2
    /\ file_state_[1].p_GI # file_state_[2].p_GI
    /\ file_state_[2].p_GI = state_ptr_.p_GI
    /\ odom_msg.position = state_ptr_.p_GI
    /\ file_gps_[2].timestamp = running[t].msg.timestamp

\* C17: no measurement update happens before initialization: a gps_callback
\* that starts with the filter not initialized, the one that initializes it
\* included, leaves position, velocity, biases and covariance as they were,
\* publishes no odometry, appends nothing to the path and writes to neither
\* log.
C17_NoUpdateBeforeInit ==
  [][\A t \in Threads :
       (GpsReturns(t) /\ ~initialized_)
       => /\ state_ptr_'.p_GI = state_ptr_.p_GI
          /\ state_ptr_'.v_GI = state_ptr_.v_GI
          /\ state_ptr_'.acc_bias = state_ptr_.acc_bias
          /\ state_ptr_'.gyr_bias = state_ptr_.gyr_bias
          /\ state_ptr_'.cov = state_ptr_.cov
          /\ running'[t].ret # "gps:updated"
          /\ UNCHANGED <<odom_msg, nav_path_, file_gps_, file_state_>>]_vars

\* the filter has just been initialized by a fix: the state is at the origin
\* with the covariance of set_cov, and nothing has been handed out
C17_Witness ==
  \E t \in Threads :
    /\ ReturnedAt(t, "gps:initialized")
    /\ initialized_
    /\ init_lla_ = running[t].msg.lla
    /\ state_ptr_.p_GI = Zero3 /\ state_ptr_.v_GI = Zero3
    /\ state_ptr_.cov = set_cov
    /\ odom_msg = [kind |-> "none"]
    /\ nav_path_ = <<>> /\ file_gps_ = <<>> /\ file_state_ = <<>>

====
